---- MODULE Spec2Model ----
(***************************************************************************)
(* Alert rule-group reconciliation of pkg/services/ngalert/api/api_ruler.go *)
(* (RulerSrv): a submission is validated, diffed against the persisted     *)
(* rules of its namespace+group (calculateChanges), written in one store   *)
(* transaction together with the quota check, and after the commit the     *)
(* scheduler is told about the updated and the deleted rules.              *)
(*                                                                         *)
(* The rule store, the quota service and the scheduler are collaborators   *)
(* behind interfaces; they are modelled from their contract.               *)
(***************************************************************************)
EXTENDS Integers, Sequences, FiniteSets, TLC

\* ------------------------------------------------------------------ bounds
MaxSubmit  == 2      \* longest submitted rule list
MaxID      == 5      \* largest storage ID the store hands out
MaxVersion == 3      \* submissions stop once a rule reached this Version

\* ------------------------------------------------------------ small domains
Procs      == {1, 2}                 \* request slots (goroutines serving HTTP)
Orgs       == {1}                    \* orgs that submit; org 2 only owns a rule
Namespaces == {"n1"}                 \* namespaces submitted to; "n2" only holds a rule
Groups     == {"g1", "g2"}
SubmitUIDs == {"", "a", "b"}         \* "" = not yet created
Titles     == {"t1"}                 \* submitted content; stored rules start as "t0"

\* ------------------------------------------------------------------- errors
NoErr            == "none"
ErrNotFound      == "ErrAlertRuleNotFound"
ErrValidation    == "ErrAlertRuleFailedValidation"
ErrQuotaReached  == "errQuotaReached"
ErrInternal      == "internal"
StoreErrs        == {ErrNotFound, ErrValidation, ErrInternal}
ErrGroupNotFound == "ErrRuleGroupNamespaceNotFound"

\* ---------------------------------------------------------------- AlertRule
NilRule == [ID |-> 0, OrgID |-> 0, UID |-> "", NamespaceUID |-> "",
            RuleGroup |-> "", Title |-> "", Version |-> 0]

Rule(id, org, uid, ns, grp, title, ver) ==
    [ID |-> id, OrgID |-> org, UID |-> uid, NamespaceUID |-> ns,
     RuleGroup |-> grp, Title |-> title, Version |-> ver]

Key(org, uid) == <<org, uid>>

VARIABLES
    rules,      \* persisted alert_rule table: set of AlertRule
    nextID,     \* next storage-assigned ID
    registry,   \* scheduler registry: key -> Version of its in-memory copy
    txOwner,    \* request holding the store transaction, 0 = none
    pc,         \* pc[p]: position of request p
    req,        \* req[p]: org, namespace, group and validated rules
    changes,    \* changes[p]: *RuleChanges of updateAlertRulesInGroup
    tx,         \* tx[p]: table and ID counter as seen inside the transaction
    pre,        \* pre[p]: table when the transaction of p opened
    err,        \* err[p]: error returned by InTransaction
    status,     \* status[p]: HTTP status of the response, 0 = none yet
    calls,      \* calls[p]: scheduler calls made by request p, in order
    idx,        \* idx[p]: loop index of the running loop of p
    failed,     \* failed[p]: first step of the request that failed, or "none"
    lastWrite,  \* the submission whose commit was the last write of the table
                \* (history; NoReq when the last write was not a submission)
    route,      \* route[p]: the handler request p runs, "" when idle
    uids,       \* uids[p]: rule UIDs a delete of the store returned
    result,     \* result[p]: body of the response of a read
    seen,       \* seen[p]: the table as it was when submission p arrived
    namespaceMap, \* namespaceMap[p]: namespaces visible to the caller of a read
    q           \* q[p]: the query a read sent to the store, with its result

vars == <<rules, nextID, registry, txOwner, pc, req, changes, tx, pre, err,
          status, calls, idx, failed, lastWrite, route, uids, result, seen,
          namespaceMap, q>>

\* ---------------------------------------------------------------- helpers
Range(s) == {s[i] : i \in 1..Len(s)}

\* all orderings of a finite set (Go map iteration order is unspecified)
Orderings(S) ==
    {s \in [1..Cardinality(S) -> S] : \A i, j \in 1..Cardinality(S) : s[i] = s[j] => i = j}

NoChanges == [newRules |-> 0, Upsert |-> <<>>, Delete |-> <<>>]
NoReq     == [org |-> 0, ns |-> "", grp |-> "", rules |-> <<>>]
NoTx      == [rules |-> {}, nextID |-> 0]
NoQuery   == [OrgID |-> 0, NamespaceUIDs |-> <<>>, RuleGroup |-> "", Result |-> <<>>]

\* ------------------------------------------------------------- rule store
\* store.RuleStore.GetRuleGroupAlertRules: the rules of one namespace+group
GetRuleGroupAlertRules(tbl, orgId, ns, grp) ==
    {r \in tbl : r.OrgID = orgId /\ r.NamespaceUID = ns /\ r.RuleGroup = grp}

\* store.RuleStore.GetAlertRuleByUID: point lookup within the org; q.Result
\* stays nil (NilRule) when the rule is not found
GetAlertRuleByUID(tbl, orgId, uid) ==
    IF \E r \in tbl : r.OrgID = orgId /\ r.UID = uid
    THEN CHOOSE r \in tbl : r.OrgID = orgId /\ r.UID = uid
    ELSE NilRule

\* UID the store generates for a rule inserted with an empty UID
GenerateNewAlertRuleUID(id) == "x" \o ToString(id)

\* a store without the unique index on (org, UID): every rule without a
\* storage ID is inserted
UpsertOneUnchecked(st, e) ==
    IF e.New.ID = 0
    THEN [ok     |-> st.ok,
          rules  |-> st.rules \cup {[e.New EXCEPT !.ID = st.nextID,
                                       !.UID = IF @ = "" THEN "x" \o ToString(st.nextID) ELSE @]},
          nextID |-> st.nextID + 1]
    ELSE [st EXCEPT !.rules = {r \in st.rules : r.ID # e.New.ID} \cup {e.New}]

\* store.RuleStore.UpsertAlertRules, one entry: insert when the rule carries
\* no storage ID, else update-by-ID with the new Version. st = [ok, rules,
\* nextID]; ok turns FALSE when a storage constraint fails (UID taken within
\* the org, or no row with that ID).
UpsertOne(st, e) ==
    IF ~st.ok THEN st
    ELSE IF e.New.ID = 0
    THEN LET uid == IF e.New.UID = "" THEN GenerateNewAlertRuleUID(st.nextID)
                    ELSE e.New.UID
         IN IF \E r \in st.rules : r.OrgID = e.New.OrgID /\ r.UID = uid
            THEN [st EXCEPT !.ok = FALSE]
            ELSE [ok     |-> TRUE,
                  rules  |-> st.rules \cup {[e.New EXCEPT !.ID = st.nextID, !.UID = uid]},
                  nextID |-> st.nextID + 1]
    ELSE IF \E r \in st.rules : r.ID = e.New.ID
    THEN [st EXCEPT !.rules = {r \in st.rules : r.ID # e.New.ID} \cup {e.New}]
    ELSE [st EXCEPT !.ok = FALSE]

RECURSIVE UpsertFrom(_, _, _)
UpsertFrom(st, upsert, i) ==
    IF i > Len(upsert) THEN st
    ELSE UpsertFrom(UpsertOne(st, upsert[i]), upsert, i + 1)

\* store.RuleStore.UpsertAlertRules: the entries in order, as one bulk write
UpsertAlertRules(t, upsert) ==
    UpsertFrom([ok |-> TRUE, rules |-> t.rules, nextID |-> t.nextID], upsert, 1)

\* store.RuleStore.DeleteAlertRuleByUID
DeleteAlertRuleByUID(tbl, orgId, uid) ==
    {r \in tbl : ~(r.OrgID = orgId /\ r.UID = uid)}

\* the rules of one namespace of an org
NamespaceAlertRules(tbl, orgId, ns) ==
    {r \in tbl : r.OrgID = orgId /\ r.NamespaceUID = ns}

\* store.RuleStore.DeleteNamespaceAlertRules: removes the rules of the
\* namespace in one transaction and returns their UIDs
DeleteNamespaceAlertRules(tbl, orgId, ns) ==
    tbl \ NamespaceAlertRules(tbl, orgId, ns)

\* store.RuleStore.DeleteRuleGroupAlertRules: removes the rules of the group
\* in one transaction and returns their UIDs; a group without rules is
\* answered with ErrGroupNotFound
DeleteRuleGroupAlertRules(tbl, orgId, ns, grp) ==
    tbl \ GetRuleGroupAlertRules(tbl, orgId, ns, grp)

\* the errors the two deletes can return for a set of matching rules
DeleteErrors(matching) ==
    {ErrInternal} \cup (IF matching = {} THEN {ErrGroupNotFound} ELSE {})

\* -------------------------------------------------------- calculateChanges
\* a query that names the namespace and leaves the group out
ExistingNamespaceRules(tbl, orgId, ns, grp) ==
    {r \in tbl : r.OrgID = orgId /\ r.NamespaceUID = ns}

\* lines 372-380: existingGroupRules is the answer to the query for the org,
\* the namespace and the group of the submission
ExistingGroupRules(tbl, orgId, ns, grp) ==
    GetRuleGroupAlertRules(tbl, orgId, ns, grp)

\* an index whose keys are the group names of the rules
IndexByGroup(G) ==
    [u \in {r.RuleGroup : r \in G} |-> CHOOSE r \in G : r.RuleGroup = u]

\* existingGroupRulesUIDs: map UID -> rule of the group (lines 382-385)
IndexByUID(G) ==
    [u \in {r.UID : r \in G} |-> CHOOSE r \in G : r.UID = u]

\* lines 408-415: no existing rule, the submitted rule is created at Version 1
CreateEntry(r) ==
    [Existing |-> NilRule, New |-> [r EXCEPT !.Version = 1]]

\* an update that leaves the Version as the caller sent it
UpdateEntryCallerVersion(r, existing) ==
    [Existing |-> existing, New |-> [r EXCEPT !.ID = existing.ID]]

\* lines 418-424: existing rule, carry its ID over and bump its Version
UpdateEntry(r, existing) ==
    [Existing |-> existing,
     New      |-> [r EXCEPT !.ID = existing.ID, !.Version = existing.Version + 1]]

\* a search that stops at the group and never asks the org-wide lookup
FindExistingInGroupOnly(tbl, orgId, index, r) ==
    IF r.UID # "" /\ r.UID \in DOMAIN index THEN index[r.UID] ELSE NilRule

\* lines 393-406: the existing rule of a submitted rule: none for an empty
\* UID, the group's rule when the index has the UID, else the org-wide lookup
FindExisting(tbl, orgId, index, r) ==
    IF r.UID = "" THEN NilRule
    ELSE IF r.UID \in DOMAIN index THEN index[r.UID]
    ELSE GetAlertRuleByUID(tbl, orgId, r.UID)

\* a match that stays in the index
RemoveMatchedNot(index, r) == index

\* line 397: a UID matched in the group leaves the index
RemoveMatched(index, r) ==
    IF r.UID # "" /\ r.UID \in DOMAIN index
    THEN [u \in DOMAIN index \ {r.UID} |-> index[u]]
    ELSE index

\* an entry put in front of the entries made so far
PrependEntry(upsert, entry) == <<entry>> \o upsert

\* lines 410 and 421: upsert = append(upsert, ...)
AppendEntry(upsert, entry) == Append(upsert, entry)

\* a count that takes every submitted rule for a new one
CountNewAlways(newRules, existing) == newRules + 1

\* line 414: newRules++ on the path of a rule without existing rule
CountNew(newRules, existing) ==
    IF existing = NilRule THEN newRules + 1 ELSE newRules

\* lines 390-426: the loop over the submitted rules, from rule i on
RECURSIVE CalcLoop(_, _, _, _, _)
CalcLoop(tbl, orgId, submitted, i, acc) ==
    IF i > Len(submitted) THEN acc
    ELSE LET r        == submitted[i]
             existing == FindExisting(tbl, orgId, acc.index, r)
             entry    == IF existing = NilRule THEN CreateEntry(r)
                         ELSE UpdateEntry(r, existing)
         IN CalcLoop(tbl, orgId, submitted, i + 1,
                     [index    |-> RemoveMatched(acc.index, r),
                      Upsert   |-> AppendEntry(acc.Upsert, entry),
                      newRules |-> CountNew(acc.newRules, existing)])

\* a calculation that deletes nothing
LeftToDeleteNothing(index) == {}

\* lines 428-430: what is left in the index is deleted
LeftToDelete(index) == {index[u] : u \in DOMAIN index}

\* calculateChanges without the order of Delete: Upsert, newRules and the
\* set of rules to delete
calculateChanges(tbl, orgId, ns, grp, submitted) ==
    LET acc == CalcLoop(tbl, orgId, submitted, 1,
                        [index    |-> IndexByUID(ExistingGroupRules(tbl, orgId, ns, grp)),
                         Upsert   |-> <<>>,
                         newRules |-> 0])
    IN [newRules |-> acc.newRules, Upsert |-> acc.Upsert,
        toDelete |-> LeftToDelete(acc.index)]

\* the UIDs calculateChanges looks up org-wide (line 401): a non-empty UID
\* that is not in the group, or that an earlier submitted rule matched
LookedUpUIDs(tbl, orgId, ns, grp, submitted) ==
    LET G == {r.UID : r \in GetRuleGroupAlertRules(tbl, orgId, ns, grp)}
    IN {submitted[i].UID : i \in {k \in 1..Len(submitted) :
          /\ submitted[k].UID # ""
          /\ \/ submitted[k].UID \notin G
             \/ \E j \in 1..(k - 1) : submitted[j].UID = submitted[k].UID}}

\* the errors GetAlertRuleByUID can return to these lookups: a store failure,
\* or rule-not-found for a UID the org does not have
LookupErrors(tbl, orgId, ns, grp, submitted) ==
    LET looked == LookedUpUIDs(tbl, orgId, ns, grp, submitted)
    IN (IF looked # {} THEN StoreErrs \ {ErrNotFound} ELSE {})
       \cup (IF \E u \in looked : GetAlertRuleByUID(tbl, orgId, u) = NilRule
             THEN {ErrNotFound} ELSE {})

\* a lookup whose every error fails calculateChanges
LookupFatalAlways(e) == TRUE

\* line 401: a lookup error other than rule-not-found fails calculateChanges
LookupFatal(e) == e # ErrNotFound

\* --------------------------------------------------------------- scheduler
\* the registry a full synchronisation with the table gives
SyncedRegistry(tbl) ==
    [k \in {Key(r.OrgID, r.UID) : r \in tbl} |->
        (CHOOSE r \in tbl : Key(r.OrgID, r.UID) = k).Version]

\* schedule.ScheduleService.UpdateAlertRule: refresh the in-memory copy of a
\* registered key from storage; an unregistered key is left alone
UpdateAlertRule(reg, tbl, key) ==
    IF key \in DOMAIN reg /\ key \in DOMAIN SyncedRegistry(tbl)
    THEN [reg EXCEPT ![key] = SyncedRegistry(tbl)[key]]
    ELSE reg

\* schedule.ScheduleService.DeleteAlertRule: drop the key from the registry
DeleteAlertRule(reg, key) ==
    [k \in DOMAIN reg \ {key} |-> reg[k]]

\* a closure that asks the quota service whatever the change set holds
ChecksQuotaAlways(c) == TRUE

\* ------------------------------------------------- updateAlertRulesInGroup
\* lines 283-294: the quota is consulted only when rules are created
ChecksQuota(c) == c.newRules > 0

\* a closure that goes on after calculateChanges failed
CalcErrorIgnored(e) == NoErr

\* lines 267-269: a failed calculateChanges ends the closure with its error
\* (wrapped with %w at lines 378 and 402, errors.Is still sees it)
CalcError(e) == e

\* lines 273-275: a failed UpsertAlertRules ends the closure with its error
\* (wrapped with %w, errors.Is still sees it)
UpsertError(e) == e

\* a loop that goes on after a failed delete
DeleteErrorIgnored(e) == NoErr

\* lines 278-280: a failed DeleteAlertRuleByUID ends the closure with its error
DeleteError(e) == e

\* lines 288-290: a failed CheckQuotaReached ends the closure with its error
QuotaError(e) == e

\* a quota check whose answer is not acted on
QuotaResultIgnored(limitReached) == NoErr

\* lines 291-293: limit reached aborts the transaction
QuotaResult(limitReached) ==
    IF limitReached THEN ErrQuotaReached ELSE NoErr

\* a handler that goes on to the scheduler whatever the transaction returned
AfterTransactionUnchecked(e) == "notifyUpsert"

\* line 298: an error of the transaction ends the request before any
\* scheduler call
AfterTransaction(e) ==
    IF e # NoErr THEN "error" ELSE "notifyUpsert"

\* a handler that answers every failed transaction with 500
ErrStatusInternal(e) == 500

\* lines 298-307: the status of a failed transaction
ErrStatus(e) ==
    IF e = ErrNotFound THEN 404
    ELSE IF e = ErrValidation THEN 400
    ELSE IF e = ErrQuotaReached THEN 403
    ELSE 500

\* a loop that tells the scheduler about every Upsert entry
NotifiesUpdateAlways(e) == TRUE

\* line 310: only an entry with an existing rule is told to the scheduler
NotifiesUpdate(e) == e.Existing # NilRule

\* lines 311-314
UpdateKey(orgId, e) == Key(orgId, e.Existing.UID)

\* a key that names the rule's group instead of its UID
DeleteKeyByGroup(orgId, r) == Key(orgId, r.RuleGroup)

\* lines 319-322
DeleteKey(orgId, r) == Key(orgId, r.UID)

\* ------------------------------------------------ RoutePostNameRulesConfig
NamespaceResults == {"ok", "ErrCannotEditNamespace", "ErrDashboardIdentifierNotSet", "folderError"}

\* toNamespaceErrorResponse (lines 355-363)
toNamespaceErrorResponse(res) ==
    IF res = "ErrCannotEditNamespace" THEN 403
    ELSE IF res = "ErrDashboardIdentifierNotSet" THEN 400
    ELSE 404

\* submitted rule specs: UID (may be empty) and content
Payloads ==
    UNION {[1..n -> [UID : SubmitUIDs, Title : Titles]] : n \in 0..MaxSubmit}

\* validateRuleGroup: AlertRules with org, namespace and group filled in
validateRuleGroup(payload, orgId, ns, grp) ==
    [i \in 1..Len(payload) |->
        Rule(0, orgId, payload[i].UID, ns, grp, payload[i].Title, 0)]

\* ------------------------------------------- the store call of each route
\* a read of one group that calls the delete of the group
TableAfterGroupReadDeletes(r, tbl, orgId, ns, grp) ==
    IF r = "DELETE_NS" THEN DeleteNamespaceAlertRules(tbl, orgId, ns)
    ELSE IF r \in {"DELETE_GROUP", "GET_GROUP"}
    THEN DeleteRuleGroupAlertRules(tbl, orgId, ns, grp)
    ELSE tbl

\* the table after the store call a delete or a read makes when the call
\* succeeds: DeleteNamespaceAlertRules (line 47), DeleteRuleGroupAlertRules
\* (line 69), and the queries GetNamespaceAlertRules (line 99),
\* GetRuleGroupAlertRules (line 142) and GetOrgAlertRules (line 196), which
\* leave the table as it is
TableAfter(r, tbl, orgId, ns, grp) ==
    IF r = "DELETE_NS" THEN DeleteNamespaceAlertRules(tbl, orgId, ns)
    ELSE IF r = "DELETE_GROUP" THEN DeleteRuleGroupAlertRules(tbl, orgId, ns, grp)
    ELSE tbl

\* ------------------------------------------------------- the delete routes
\* lines 48-50: any error of DeleteNamespaceAlertRules is answered 500
NamespaceDeleteStatus(e) == 500

\* a handler that answers every failed group delete with 500
GroupDeleteStatusInternal(e) == 500

\* lines 71-76: a group that is not found is answered 404, any other error 500
GroupDeleteStatus(e) ==
    IF e = ErrGroupNotFound THEN 404 ELSE 500

\* a loop that stops one UID short
MoreToNotifyButLast(i, u) == i < Len(u)

\* lines 52 and 78: for _, uid := range uids
MoreToNotify(i, u) == i <= Len(u)

\* lines 53-56 and 79-82
UIDKey(orgId, uid) == Key(orgId, uid)

\* --------------------------------------------------------- the read routes
\* the namespaces (folders) of the org; a caller sees some of them
AllNamespaces == {"n1", "n2"}

\* models.Folder of a namespace: its Uid, its Title and its Id
Folder(uid) == [Uid |-> uid, Title |-> "folder " \o uid, Id |-> "id " \o uid]

\* the zero value a Go map lookup gives for a missing key
NilFolder == [Uid |-> "", Title |-> "", Id |-> ""]

\* store.RuleStore.GetNamespaces: uid -> folder for the visible namespaces
NamespaceMapOf(visible) == [u \in visible |-> Folder(u)]

\* lines 175-178: make([]string, len(namespaceMap)) followed by append: the
\* slice starts with len(namespaceMap) empty strings, the keys follow in the
\* order the map is ranged over
NamespaceUIDsOf(keys) == [i \in 1..Len(keys) |-> ""] \o keys

\* store.RuleStore.GetOrgAlertRules: the rules of the org in the namespaces
\* the query names
GetOrgAlertRules(tbl, orgId, namespaceUIDs) ==
    {r \in tbl : r.OrgID = orgId /\ r.NamespaceUID \in Range(namespaceUIDs)}

\* the rule sets the handler must cope with as q.Result: what the query
\* asked for, or every rule of the org (lines 202-206 do not rely on the
\* store having applied NamespaceUIDs)
OrgResults(tbl, orgId, namespaceUIDs) ==
    {GetOrgAlertRules(tbl, orgId, namespaceUIDs), {r \in tbl : r.OrgID = orgId}}

\* toGettableExtendedRuleNode (lines 328-353): the rule with the ID of its
\* namespace
toGettableExtendedRuleNode(r, namespaceID) ==
    [GrafanaManagedAlert |-> r, NamespaceID |-> namespaceID]

\* lines 109-115, 212-218, 223-229: a group config with its first rule
NewGroupConfig(r, namespaceID) ==
    [Name |-> r.RuleGroup, Rules |-> <<toGettableExtendedRuleNode(r, namespaceID)>>]

\* line 202: folder, ok := namespaceMap[r.NamespaceUID]
FolderOf(nsMap, r) ==
    IF r.NamespaceUID \in DOMAIN nsMap THEN nsMap[r.NamespaceUID] ELSE NilFolder

\* a loop that skips no rule
VisibleAlways(nsMap, r) == TRUE

\* lines 202-206: a rule whose namespace is not in the map is skipped
Visible(nsMap, r) == r.NamespaceUID \in DOMAIN nsMap

\* lines 207-234: one visible rule put into configs[namespace][r.RuleGroup]
AddRule(configs, namespace, r, namespaceID) ==
    IF namespace \notin DOMAIN configs
    THEN configs @@ (namespace :> (r.RuleGroup :> NewGroupConfig(r, namespaceID)))
    ELSE IF r.RuleGroup \notin DOMAIN configs[namespace]
    THEN [configs EXCEPT ![namespace] = @ @@ (r.RuleGroup :> NewGroupConfig(r, namespaceID))]
    ELSE [configs EXCEPT ![namespace][r.RuleGroup].Rules =
             Append(@, toGettableExtendedRuleNode(r, namespaceID))]

\* lines 200-235: the loop over q.Result, from rule i on
RECURSIVE OrgConfigs(_, _, _, _)
OrgConfigs(configs, nsMap, found, i) ==
    IF i > Len(found) THEN configs
    ELSE LET r == found[i]
             folder == FolderOf(nsMap, r)
         IN OrgConfigs(IF Visible(nsMap, r)
                       THEN AddRule(configs, folder.Title, r, folder.Id)
                       ELSE configs,
                       nsMap, found, i + 1)

\* lines 237-241 (and 122-124): the group configs of every namespace in the
\* order the maps are ranged over: every possible response body
Responses(configs) ==
    {body \in [DOMAIN configs -> UNION {Orderings({configs[t][g] : g \in DOMAIN configs[t]}) :
                                          t \in DOMAIN configs}] :
        \A t \in DOMAIN configs :
            body[t] \in Orderings({configs[t][g] : g \in DOMAIN configs[t]})}

\* lines 105-120: the loop over q.Result of one namespace, from rule i on
RECURSIVE NamespaceConfigs(_, _, _, _)
NamespaceConfigs(ruleGroupConfigs, namespaceID, found, i) ==
    IF i > Len(found) THEN ruleGroupConfigs
    ELSE LET r == found[i]
         IN NamespaceConfigs(
                IF r.RuleGroup \notin DOMAIN ruleGroupConfigs
                THEN ruleGroupConfigs @@ (r.RuleGroup :> NewGroupConfig(r, namespaceID))
                ELSE [ruleGroupConfigs EXCEPT ![r.RuleGroup].Rules =
                         Append(@, toGettableExtendedRuleNode(r, namespaceID))],
                namespaceID, found, i + 1)

\* lines 146-159: the config of one group, its rules in the order of q.Result
GroupConfig(ruleGroup, namespaceID, found) ==
    [Name  |-> ruleGroup,
     Rules |-> [i \in 1..Len(found) |-> toGettableExtendedRuleNode(found[i], namespaceID)]]

\* the outcomes of getPanelIDFromRequest and of the check of line 185
PanelResults == {"ok", "invalid panel_id", "panel_id without dashboard_uid"}

\* ---------------------------------------------------------------- initial
InitRules ==
    {Rule(1, 1, "a", "n1", "g1", "t0", 1),
     Rule(2, 1, "b", "n2", "g1", "t0", 1),
     Rule(3, 2, "a", "n1", "g1", "t0", 1)}

Init ==
    /\ rules    = InitRules
    /\ nextID   = 4
    /\ registry = SyncedRegistry(InitRules)
    /\ txOwner  = 0
    /\ pc       = [p \in Procs |-> "idle"]
    /\ req      = [p \in Procs |-> NoReq]
    /\ changes  = [p \in Procs |-> NoChanges]
    /\ tx       = [p \in Procs |-> NoTx]
    /\ pre      = [p \in Procs |-> {}]
    /\ err      = [p \in Procs |-> NoErr]
    /\ status   = [p \in Procs |-> 0]
    /\ calls    = [p \in Procs |-> <<>>]
    /\ idx      = [p \in Procs |-> 0]
    /\ failed   = [p \in Procs |-> "none"]
    /\ lastWrite = NoReq
    /\ route    = [p \in Procs |-> ""]
    /\ uids     = [p \in Procs |-> <<>>]
    /\ result   = [p \in Procs |-> <<>>]
    /\ seen     = [p \in Procs |-> {}]
    /\ namespaceMap = [p \in Procs |-> <<>>]
    /\ q        = [p \in Procs |-> NoQuery]

\* tables calculateChanges is applied to: rule a of the group n1/g1 at any
\* Version, the rule of org 2, and rule b in the same group or in namespace
\* n2 at any Version, or no rule b at all
CalcTables ==
    {{Rule(1, 1, "a", "n1", "g1", "t0", va), Rule(3, 2, "a", "n1", "g1", "t0", 1)} \cup B :
        va \in 1..MaxVersion,
        B \in {{}} \cup {{Rule(2, 1, "b", nb, "g1", "t0", vb)} :
                            nb \in AllNamespaces, vb \in 1..MaxVersion}}

InitCalc ==
    /\ rules \in CalcTables
    /\ nextID   = 4
    /\ registry = SyncedRegistry(rules)
    /\ txOwner  = 0
    /\ pc       = [p \in Procs |-> "idle"]
    /\ req      = [p \in Procs |-> NoReq]
    /\ changes  = [p \in Procs |-> NoChanges]
    /\ tx       = [p \in Procs |-> NoTx]
    /\ pre      = [p \in Procs |-> {}]
    /\ err      = [p \in Procs |-> NoErr]
    /\ status   = [p \in Procs |-> 0]
    /\ calls    = [p \in Procs |-> <<>>]
    /\ idx      = [p \in Procs |-> 0]
    /\ failed   = [p \in Procs |-> "none"]
    /\ lastWrite = NoReq
    /\ route    = [p \in Procs |-> ""]
    /\ uids     = [p \in Procs |-> <<>>]
    /\ result   = [p \in Procs |-> <<>>]
    /\ seen     = [p \in Procs |-> {}]
    /\ namespaceMap = [p \in Procs |-> <<>>]
    /\ q        = [p \in Procs |-> NoQuery]

\* ---------------------------------------------------------------- actions
\* line 248: a namespace that does not resolve ends the request
NamespaceRejected(nsRes) == nsRes # "ok"

\* a handler that goes on with a rule group that failed validation
ValidationRejectedNever(valid) == FALSE

\* line 253: a rule group that fails validation ends the request
ValidationRejected(valid) == ~valid

\* what the two collaborators answered, remembered with the request
Answered(nsRes, valid) ==
    IF nsRes # "ok" THEN "GetNamespaceByTitle"
    ELSE IF ~valid THEN "validateRuleGroup"
    ELSE "none"

\* RoutePostNameRulesConfig (lines 245-258): resolve the namespace, validate
\* the group, then go on to updateAlertRulesInGroup
RoutePostNameRulesConfig(p) ==
    /\ pc[p] = "idle"
    /\ route' = [route EXCEPT ![p] = "POST"]
    /\ \E nsRes \in NamespaceResults, valid \in BOOLEAN :
         /\ failed' = [failed EXCEPT ![p] = Answered(nsRes, valid)]
         /\ IF NamespaceRejected(nsRes)
            THEN /\ status' = [status EXCEPT ![p] = toNamespaceErrorResponse(nsRes)]
                 /\ pc' = [pc EXCEPT ![p] = "done"]
                 /\ UNCHANGED <<req, seen>>
            ELSE IF ValidationRejected(valid)
            THEN /\ status' = [status EXCEPT ![p] = 400]
                 /\ pc' = [pc EXCEPT ![p] = "done"]
                 /\ UNCHANGED <<req, seen>>
            ELSE \E orgId \in Orgs, ns \in Namespaces, grp \in Groups, payload \in Payloads :
                 /\ nextID + Cardinality({i \in 1..Len(payload) :
                                   GetAlertRuleByUID(rules, orgId, payload[i].UID) = NilRule})
                       <= MaxID + 1
                 /\ \A r \in rules : r.Version < MaxVersion
                 /\ req' = [req EXCEPT ![p] = [org |-> orgId, ns |-> ns, grp |-> grp,
                                               rules |-> validateRuleGroup(payload, orgId, ns, grp)]]
                 /\ seen' = [seen EXCEPT ![p] = rules]
                 /\ pc' = [pc EXCEPT ![p] = "begin"]
                 /\ status' = status
    /\ UNCHANGED <<rules, nextID, registry, txOwner, changes, tx, pre, err, calls, idx, lastWrite, uids, result, namespaceMap, q>>

\* store.InTransaction opens (line 264): the transaction works on its own
\* view of the table; the store runs one write transaction at a time
InTransaction(p) ==
    /\ pc[p] = "begin"
    /\ txOwner = 0
    /\ txOwner' = p
    /\ tx' = [tx EXCEPT ![p] = [rules |-> rules, nextID |-> nextID]]
    /\ pre' = [pre EXCEPT ![p] = rules]
    /\ pc' = [pc EXCEPT ![p] = "calc"]
    /\ UNCHANGED <<rules, nextID, registry, req, changes, err, status, calls, idx, failed, lastWrite, route, uids, result, seen, namespaceMap, q>>

\* a step of the closure returned r: an error ends the closure and makes
\* InTransaction roll back, nil lets the closure go on at position next
Returned(p, r, next) ==
    IF r # NoErr
    THEN /\ err' = [err EXCEPT ![p] = r]
         /\ pc' = [pc EXCEPT ![p] = "rollback"]
    ELSE /\ err' = err
         /\ pc' = [pc EXCEPT ![p] = next]

\* the first failing step of the transaction is remembered
Fails(p, step) ==
    failed' = [failed EXCEPT ![p] = IF @ = "none" THEN step ELSE @]

\* reads that go to the table as the request found it on arrival, before
\* the transaction opened
CalcViewAtArrival(p) == seen[p]

\* line 266: calculateChanges gets tranCtx, its reads are reads of the
\* transaction
CalcView(p) == tx[p].rules

\* calculateChanges inside the transaction (lines 266-269)
CalculateChanges(p) ==
    /\ pc[p] = "calc"
    /\ \/ \* the existing-group query fails (lines 377-379)
          /\ \E e \in StoreErrs : Returned(p, CalcError(e), "upsert")
          /\ Fails(p, "GetRuleGroupAlertRules")
          /\ UNCHANGED changes
       \/ \* an org-wide lookup fails with something else than not-found
          /\ \E e \in LookupErrors(CalcView(p), req[p].org, req[p].ns, req[p].grp, req[p].rules) :
                /\ LookupFatal(e)
                /\ Returned(p, CalcError(e), "upsert")
          /\ Fails(p, "GetAlertRuleByUID")
          /\ UNCHANGED changes
       \/ LET c == calculateChanges(CalcView(p), req[p].org, req[p].ns, req[p].grp, req[p].rules)
          IN \E d \in Orderings(c.toDelete) :
               /\ changes' = [changes EXCEPT ![p] =
                                [newRules |-> c.newRules, Upsert |-> c.Upsert, Delete |-> d]]
               /\ Returned(p, NoErr, "upsert")
               /\ failed' = failed
    /\ UNCHANGED <<rules, nextID, registry, txOwner, req, tx, pre, status, calls, idx, lastWrite, route, uids, result, seen, namespaceMap, q>>

\* calculateChanges applied to a table and a validated submission (lines 266
\* and 371-437, no query failing): the submission stands in its transaction
\* with the change set computed
Calculate(p) ==
    /\ pc[p] = "idle"
    /\ \E orgId \in Orgs, ns \in Namespaces, grp \in Groups, payload \in Payloads :
         LET submitted == validateRuleGroup(payload, orgId, ns, grp)
             c == calculateChanges(rules, orgId, ns, grp, submitted)
         IN \E d \in Orderings(c.toDelete) :
              /\ req' = [req EXCEPT ![p] = [org |-> orgId, ns |-> ns, grp |-> grp,
                                            rules |-> submitted]]
              /\ changes' = [changes EXCEPT ![p] =
                               [newRules |-> c.newRules, Upsert |-> c.Upsert, Delete |-> d]]
    /\ route' = [route EXCEPT ![p] = "POST"]
    /\ seen' = [seen EXCEPT ![p] = rules]
    /\ pre' = [pre EXCEPT ![p] = rules]
    /\ tx' = [tx EXCEPT ![p] = [rules |-> rules, nextID |-> nextID]]
    /\ txOwner' = p
    /\ pc' = [pc EXCEPT ![p] = "upsert"]
    /\ UNCHANGED <<rules, nextID, registry, err, status, calls, idx, failed, lastWrite, uids, result, namespaceMap, q>>

\* srv.store.UpsertAlertRules(tranCtx, changes.Upsert) (lines 272-275); a
\* failing bulk write may have written some of its rows in the transaction
UpsertStep(p) ==
    /\ pc[p] = "upsert"
    /\ LET st == UpsertAlertRules(tx[p], changes[p].Upsert)
       IN /\ tx' = [tx EXCEPT ![p] = [rules |-> st.rules, nextID |-> st.nextID]]
          /\ \/ /\ st.ok
                /\ Returned(p, NoErr, "delete")
                /\ failed' = failed
             \/ /\ \E e \in StoreErrs : Returned(p, UpsertError(e), "delete")
                /\ Fails(p, "UpsertAlertRules")
    /\ idx' = [idx EXCEPT ![p] = 1]
    /\ UNCHANGED <<rules, nextID, registry, txOwner, req, changes, pre, status, calls, lastWrite, route, uids, result, seen, namespaceMap, q>>

\* the loop over changes.Delete (lines 277-281), one iteration
DeleteStep(p) ==
    /\ pc[p] = "delete"
    /\ IF idx[p] > Len(changes[p].Delete)
       THEN /\ Returned(p, NoErr, "quota")
            /\ UNCHANGED <<tx, idx, failed>>
       ELSE /\ idx' = [idx EXCEPT ![p] = @ + 1]
            /\ \/ /\ tx' = [tx EXCEPT ![p].rules =
                               DeleteAlertRuleByUID(@, req[p].org, changes[p].Delete[idx[p]].UID)]
                  /\ Returned(p, NoErr, "delete")
                  /\ failed' = failed
               \/ /\ \E e \in StoreErrs : Returned(p, DeleteError(e), "delete")
                  /\ Fails(p, "DeleteAlertRuleByUID")
                  /\ tx' = tx
    /\ UNCHANGED <<rules, nextID, registry, txOwner, req, changes, pre, status, calls, lastWrite, route, uids, result, seen, namespaceMap, q>>

\* the quota check (lines 283-294)
QuotaStep(p) ==
    /\ pc[p] = "quota"
    /\ IF ChecksQuota(changes[p])
       THEN \/ /\ Returned(p, QuotaError(ErrInternal), "commit")   \* CheckQuotaReached fails
               /\ Fails(p, "CheckQuotaReached")
            \/ /\ Returned(p, QuotaResult(TRUE), "commit")         \* limit reached
               /\ Fails(p, "limitReached")
            \/ /\ Returned(p, QuotaResult(FALSE), "commit")
               /\ failed' = failed
       ELSE /\ Returned(p, NoErr, "commit")
            /\ failed' = failed
    /\ UNCHANGED <<rules, nextID, registry, txOwner, req, changes, tx, pre, status, calls, idx, lastWrite, route, uids, result, seen, namespaceMap, q>>

\* the closure returned nil: InTransaction commits, or the commit fails
Commit(p) ==
    /\ pc[p] = "commit"
    /\ txOwner' = 0
    /\ tx' = [tx EXCEPT ![p] = NoTx]
    /\ \/ /\ rules' = tx[p].rules
          /\ nextID' = tx[p].nextID
          /\ lastWrite' = req[p]
          /\ err' = err
          /\ pc' = [pc EXCEPT ![p] = AfterTransaction(NoErr)]
          /\ idx' = [idx EXCEPT ![p] = 1]
          /\ failed' = failed
       \/ /\ err' = [err EXCEPT ![p] = ErrInternal]
          /\ pc' = [pc EXCEPT ![p] = AfterTransaction(ErrInternal)]
          /\ Fails(p, "commit")
          /\ UNCHANGED <<rules, nextID, idx, lastWrite>>
    /\ UNCHANGED <<registry, req, changes, pre, status, calls, route, uids, result, seen, namespaceMap, q>>

\* the closure returned an error: InTransaction rolls back and returns it
Rollback(p) ==
    /\ pc[p] = "rollback"
    /\ txOwner' = 0
    /\ tx' = [tx EXCEPT ![p] = NoTx]
    /\ pc' = [pc EXCEPT ![p] = AfterTransaction(err[p])]
    /\ idx' = [idx EXCEPT ![p] = 1]
    /\ UNCHANGED <<rules, nextID, registry, req, changes, pre, err, status, calls, failed, lastWrite, route, uids, result, seen, namespaceMap, q>>

\* lines 298-307: the error response
ErrorResponse(p) ==
    /\ pc[p] = "error"
    /\ status' = [status EXCEPT ![p] = ErrStatus(err[p])]
    /\ pc' = [pc EXCEPT ![p] = "done"]
    /\ UNCHANGED <<rules, nextID, registry, txOwner, req, changes, tx, pre, err, calls, idx, failed, lastWrite, route, uids, result, seen, namespaceMap, q>>

\* the loop over changes.Upsert (lines 309-316), one iteration
NotifyUpsert(p) ==
    /\ pc[p] = "notifyUpsert"
    /\ IF idx[p] > Len(changes[p].Upsert)
       THEN /\ pc' = [pc EXCEPT ![p] = "notifyDelete"]
            /\ idx' = [idx EXCEPT ![p] = 1]
            /\ UNCHANGED <<registry, calls>>
       ELSE LET e == changes[p].Upsert[idx[p]]
            IN /\ idx' = [idx EXCEPT ![p] = @ + 1]
               /\ pc' = pc
               /\ IF NotifiesUpdate(e)
                  THEN /\ registry' = UpdateAlertRule(registry, rules, UpdateKey(req[p].org, e))
                       /\ calls' = [calls EXCEPT ![p] =
                                      Append(@, [op |-> "update", key |-> UpdateKey(req[p].org, e),
                                                 entry |-> idx[p]])]
                  ELSE UNCHANGED <<registry, calls>>
    /\ UNCHANGED <<rules, nextID, txOwner, req, changes, tx, pre, err, status, failed, lastWrite, route, uids, result, seen, namespaceMap, q>>

\* the loop over changes.Delete (lines 318-323), one iteration, and the
\* accepted response after it (line 325)
NotifyDelete(p) ==
    /\ pc[p] = "notifyDelete"
    /\ IF idx[p] > Len(changes[p].Delete)
       THEN /\ pc' = [pc EXCEPT ![p] = "done"]
            /\ status' = [status EXCEPT ![p] = 202]
            /\ UNCHANGED <<registry, calls, idx>>
       ELSE LET k == DeleteKey(req[p].org, changes[p].Delete[idx[p]])
            IN /\ registry' = DeleteAlertRule(registry, k)
               /\ calls' = [calls EXCEPT ![p] =
                              Append(@, [op |-> "delete", key |-> k, entry |-> idx[p]])]
               /\ idx' = [idx EXCEPT ![p] = @ + 1]
               /\ UNCHANGED <<pc, status>>
    /\ UNCHANGED <<rules, nextID, txOwner, req, changes, tx, pre, err, failed, lastWrite, route, uids, result, seen, namespaceMap, q>>

\* a delete of the store applied to the table: tbl is the table after it,
\* removed the rules it removed; the UIDs come back in an order of the store
Deleted(p, tbl, removed) ==
    /\ rules' = tbl
    /\ \E u \in Orderings({r.UID : r \in removed}) : uids' = [uids EXCEPT ![p] = u]
    /\ lastWrite' = NoReq
    /\ pc' = [pc EXCEPT ![p] = "notifyUIDs"]
    /\ idx' = [idx EXCEPT ![p] = 1]
    /\ UNCHANGED <<err, status, failed>>

\* a delete of the store that failed with e: nothing is removed, the handler
\* answers with st
DeleteFailed(p, step, e, st) ==
    /\ err' = [err EXCEPT ![p] = e]
    /\ status' = [status EXCEPT ![p] = st]
    /\ Fails(p, step)
    /\ pc' = [pc EXCEPT ![p] = "done"]
    /\ UNCHANGED <<rules, uids, lastWrite, idx>>

\* the namespace of a delete did not resolve (lines 43-45 and 65-67)
DeleteRejected(p, nsRes) ==
    /\ status' = [status EXCEPT ![p] = toNamespaceErrorResponse(nsRes)]
    /\ failed' = [failed EXCEPT ![p] = Answered(nsRes, TRUE)]
    /\ pc' = [pc EXCEPT ![p] = "done"]
    /\ UNCHANGED <<rules, uids, lastWrite, idx, err, req, pre>>

\* RouteDeleteNamespaceRulesConfig (lines 40-50): resolve the namespace and
\* delete its rules in the store
RouteDeleteNamespaceRulesConfig(p) ==
    /\ pc[p] = "idle"
    /\ txOwner = 0
    /\ route' = [route EXCEPT ![p] = "DELETE_NS"]
    /\ \E nsRes \in NamespaceResults :
         IF NamespaceRejected(nsRes) THEN DeleteRejected(p, nsRes)
         ELSE \E orgId \in Orgs, ns \in Namespaces :
              LET matching == NamespaceAlertRules(rules, orgId, ns)
              IN /\ req' = [req EXCEPT ![p] = [org |-> orgId, ns |-> ns, grp |-> "", rules |-> <<>>]]
                 /\ pre' = [pre EXCEPT ![p] = rules]
                 /\ \/ Deleted(p, TableAfter("DELETE_NS", rules, orgId, ns, ""), matching)
                    \/ DeleteFailed(p, "DeleteNamespaceAlertRules", ErrInternal,
                                    NamespaceDeleteStatus(ErrInternal))
    /\ UNCHANGED <<nextID, registry, txOwner, changes, tx, calls, result, seen, namespaceMap, q>>

\* RouteDeleteRuleGroupConfig (lines 62-76): resolve the namespace and delete
\* the rules of the group in the store
RouteDeleteRuleGroupConfig(p) ==
    /\ pc[p] = "idle"
    /\ txOwner = 0
    /\ route' = [route EXCEPT ![p] = "DELETE_GROUP"]
    /\ \E nsRes \in NamespaceResults :
         IF NamespaceRejected(nsRes) THEN DeleteRejected(p, nsRes)
         ELSE \E orgId \in Orgs, ns \in Namespaces, grp \in Groups :
              LET matching == GetRuleGroupAlertRules(rules, orgId, ns, grp)
              IN /\ req' = [req EXCEPT ![p] = [org |-> orgId, ns |-> ns, grp |-> grp, rules |-> <<>>]]
                 /\ pre' = [pre EXCEPT ![p] = rules]
                 /\ \/ /\ matching # {}
                       /\ Deleted(p, TableAfter("DELETE_GROUP", rules, orgId, ns, grp), matching)
                    \/ \E e \in DeleteErrors(matching) :
                          DeleteFailed(p, "DeleteRuleGroupAlertRules", e, GroupDeleteStatus(e))
    /\ UNCHANGED <<nextID, registry, txOwner, changes, tx, calls, result, seen, namespaceMap, q>>

\* the loop over uids of the two delete routes (lines 52-57 and 78-83), one
\* iteration, and the accepted response after it (lines 59 and 85)
NotifyDeleted(p) ==
    /\ pc[p] = "notifyUIDs"
    /\ IF MoreToNotify(idx[p], uids[p])
       THEN LET k == UIDKey(req[p].org, uids[p][idx[p]])
            IN /\ registry' = DeleteAlertRule(registry, k)
               /\ calls' = [calls EXCEPT ![p] =
                              Append(@, [op |-> "delete", key |-> k, entry |-> idx[p]])]
               /\ idx' = [idx EXCEPT ![p] = @ + 1]
               /\ UNCHANGED <<pc, status>>
       ELSE /\ pc' = [pc EXCEPT ![p] = "done"]
            /\ status' = [status EXCEPT ![p] = 202]
            /\ UNCHANGED <<registry, calls, idx>>
    /\ UNCHANGED <<rules, nextID, txOwner, req, changes, tx, pre, err, failed, lastWrite, route, uids, result, seen, namespaceMap, q>>

\* a read is answered with status st and body b
Responds(p, st, b) ==
    /\ status' = [status EXCEPT ![p] = st]
    /\ result' = [result EXCEPT ![p] = b]
    /\ pc' = [pc EXCEPT ![p] = "done"]

\* the query a read sends to the store, with the rules it got back
Asked(p, orgId, namespaceUIDs, ruleGroup, found) ==
    q' = [q EXCEPT ![p] = [OrgID |-> orgId, NamespaceUIDs |-> namespaceUIDs,
                           RuleGroup |-> ruleGroup, Result |-> found]]

\* a read ends before its query, or its query fails
NotQueried(p) == rules' = rules

\* RouteGetRulesConfig (lines 163-243): every rule of the org in a namespace
\* the caller sees
RouteGetRulesConfig(p) ==
    /\ pc[p] = "idle"
    /\ route' = [route EXCEPT ![p] = "GET_ALL"]
    /\ \/ \* GetNamespaces fails (lines 164-167)
          /\ Responds(p, 500, <<>>)
          /\ Fails(p, "GetNamespaces")
          /\ NotQueried(p)
          /\ UNCHANGED <<namespaceMap, q>>
       \/ \E orgId \in Orgs, visible \in SUBSET AllNamespaces :
            /\ namespaceMap' = [namespaceMap EXCEPT ![p] = NamespaceMapOf(visible)]
            /\ IF visible = {}
               THEN \* lines 170-173
                    /\ Responds(p, 200, <<>>)
                    /\ NotQueried(p)
                    /\ UNCHANGED <<q, failed>>
               ELSE \E keys \in Orderings(visible), panel \in PanelResults :
                    IF panel # "ok"
                    THEN \* lines 182-187
                         /\ Responds(p, 400, <<>>)
                         /\ Fails(p, panel)
                         /\ NotQueried(p)
                         /\ q' = q
                    ELSE \/ \* GetOrgAlertRules fails (lines 196-198)
                            /\ Asked(p, orgId, NamespaceUIDsOf(keys), "", <<>>)
                            /\ Responds(p, 500, <<>>)
                            /\ Fails(p, "GetOrgAlertRules")
                            /\ NotQueried(p)
                         \/ \E S \in OrgResults(rules, orgId, NamespaceUIDsOf(keys)) :
                            \E found \in Orderings(S) :
                            \E body \in Responses(OrgConfigs(<<>>, NamespaceMapOf(visible), found, 1)) :
                               /\ Asked(p, orgId, NamespaceUIDsOf(keys), "", found)
                               /\ rules' = TableAfter("GET_ALL", rules, orgId, "", "")
                               /\ Responds(p, 200, body)
                               /\ failed' = failed
    /\ UNCHANGED <<nextID, registry, txOwner, req, changes, tx, pre, err, calls, idx, lastWrite, uids, seen>>

\* RouteGetNamespaceRulesConfig (lines 88-127): the groups of one namespace
RouteGetNamespaceRulesConfig(p) ==
    /\ pc[p] = "idle"
    /\ route' = [route EXCEPT ![p] = "GET_NS"]
    /\ \E nsRes \in NamespaceResults :
         IF NamespaceRejected(nsRes)
         THEN /\ Responds(p, toNamespaceErrorResponse(nsRes), <<>>)
              /\ failed' = [failed EXCEPT ![p] = Answered(nsRes, TRUE)]
              /\ NotQueried(p)
              /\ UNCHANGED <<namespaceMap, q>>
         ELSE \E orgId \in Orgs, ns \in Namespaces :
              /\ namespaceMap' = [namespaceMap EXCEPT ![p] = NamespaceMapOf({ns})]
              /\ \/ \* GetNamespaceAlertRules fails (lines 99-101)
                    /\ Asked(p, orgId, <<ns>>, "", <<>>)
                    /\ Responds(p, 500, <<>>)
                    /\ Fails(p, "GetNamespaceAlertRules")
                    /\ NotQueried(p)
                 \/ \E found \in Orderings(NamespaceAlertRules(rules, orgId, ns)) :
                    LET ruleGroupConfigs == NamespaceConfigs(<<>>, Folder(ns).Id, found, 1)
                    IN \E body \in Responses(IF found = <<>> THEN <<>>
                                             ELSE (Folder(ns).Title :> ruleGroupConfigs)) :
                         /\ Asked(p, orgId, <<ns>>, "", found)
                         /\ rules' = TableAfter("GET_NS", rules, orgId, ns, "")
                         /\ Responds(p, 202, body)
                         /\ failed' = failed
    /\ UNCHANGED <<nextID, registry, txOwner, req, changes, tx, pre, err, calls, idx, lastWrite, uids, seen>>

\* RouteGetRulegGroupConfig (lines 129-161): the rules of one group
RouteGetRulegGroupConfig(p) ==
    /\ pc[p] = "idle"
    /\ route' = [route EXCEPT ![p] = "GET_GROUP"]
    /\ \E nsRes \in NamespaceResults :
         IF NamespaceRejected(nsRes)
         THEN /\ Responds(p, toNamespaceErrorResponse(nsRes), <<>>)
              /\ failed' = [failed EXCEPT ![p] = Answered(nsRes, TRUE)]
              /\ NotQueried(p)
              /\ UNCHANGED <<namespaceMap, q>>
         ELSE \E orgId \in Orgs, ns \in Namespaces, ruleGroup \in Groups :
              /\ namespaceMap' = [namespaceMap EXCEPT ![p] = NamespaceMapOf({ns})]
              /\ \/ \* GetRuleGroupAlertRules fails (lines 142-144)
                    /\ Asked(p, orgId, <<ns>>, ruleGroup, <<>>)
                    /\ Responds(p, 500, <<>>)
                    /\ Fails(p, "GetRuleGroupAlertRules")
                    /\ NotQueried(p)
                 \/ \E found \in Orderings(GetRuleGroupAlertRules(rules, orgId, ns, ruleGroup)) :
                       /\ Asked(p, orgId, <<ns>>, ruleGroup, found)
                       /\ rules' = TableAfter("GET_GROUP", rules, orgId, ns, ruleGroup)
                       /\ Responds(p, 202, GroupConfig(ruleGroup, Folder(ns).Id, found))
                       /\ failed' = failed
    /\ UNCHANGED <<nextID, registry, txOwner, req, changes, tx, pre, err, calls, idx, lastWrite, uids, seen>>

\* the response is written; the slot serves the next request
Finish(p) ==
    /\ pc[p] = "done"
    /\ pc' = [pc EXCEPT ![p] = "idle"]
    /\ req' = [req EXCEPT ![p] = NoReq]
    /\ changes' = [changes EXCEPT ![p] = NoChanges]
    /\ pre' = [pre EXCEPT ![p] = {}]
    /\ err' = [err EXCEPT ![p] = NoErr]
    /\ status' = [status EXCEPT ![p] = 0]
    /\ calls' = [calls EXCEPT ![p] = <<>>]
    /\ idx' = [idx EXCEPT ![p] = 0]
    /\ failed' = [failed EXCEPT ![p] = "none"]
    /\ route' = [route EXCEPT ![p] = ""]
    /\ uids' = [uids EXCEPT ![p] = <<>>]
    /\ result' = [result EXCEPT ![p] = <<>>]
    /\ seen' = [seen EXCEPT ![p] = {}]
    /\ namespaceMap' = [namespaceMap EXCEPT ![p] = <<>>]
    /\ q' = [q EXCEPT ![p] = NoQuery]
    /\ UNCHANGED <<rules, nextID, registry, txOwner, tx, lastWrite>>

\* the scheduler's own periodic pass: it loads what storage holds
SchedulerTick ==
    /\ registry # SyncedRegistry(rules)
    /\ registry' = SyncedRegistry(rules)
    /\ UNCHANGED <<rules, nextID, txOwner, pc, req, changes, tx, pre, err, status, calls, idx, failed, lastWrite, route, uids, result, seen, namespaceMap, q>>

\* the steps of one submission
Submission(p) ==
    \/ RoutePostNameRulesConfig(p)
    \/ InTransaction(p)
    \/ CalculateChanges(p)
    \/ UpsertStep(p)
    \/ DeleteStep(p)
    \/ QuotaStep(p)
    \/ Commit(p)
    \/ Rollback(p)
    \/ ErrorResponse(p)
    \/ NotifyUpsert(p)
    \/ NotifyDelete(p)

\* a request slot serves one submission after the other
Request(p) ==
    \/ Submission(p)
    \/ Finish(p)

\* one request at a time
Next ==
    \/ Request(1)
    \/ SchedulerTick

Spec == Init /\ [][Next]_vars

\* a request to one of the two delete routes
Delete(p) ==
    \/ RouteDeleteNamespaceRulesConfig(p)
    \/ RouteDeleteRuleGroupConfig(p)
    \/ NotifyDeleted(p)

\* a request to one of the three read routes
Read(p) ==
    \/ RouteGetRulesConfig(p)
    \/ RouteGetNamespaceRulesConfig(p)
    \/ RouteGetRulegGroupConfig(p)

\* submissions, deletes and reads, one request at a time
NextRuler ==
    \/ Request(1)
    \/ Delete(1)
    \/ Read(1)
    \/ SchedulerTick

SpecRuler == Init /\ [][NextRuler]_vars

\* two submissions served at the same time, one per request slot
NextConcurrent ==
    \/ Submission(1)
    \/ Submission(2)

SpecConcurrent == Init /\ [][NextConcurrent]_vars

\* a submission served at the same time as a request to a delete route
NextRace ==
    \/ Submission(1)
    \/ Delete(2)

SpecRace == Init /\ [][NextRace]_vars

\* calculateChanges on its own, for every table of CalcTables and every
\* submission
NextCalc == Calculate(1)

SpecCalc == InitCalc /\ [][NextCalc]_vars

\* ============================================================ properties
\* positions of a request
InTx(p)      == pc[p] \in {"calc", "upsert", "delete", "quota", "commit", "rollback"}
AfterTx(p)   == pc[p] \in {"error", "notifyUpsert", "notifyDelete"}
                  \/ (pc[p] = "done" /\ req[p] # NoReq /\ route[p] = "POST")
Committed(p) == AfterTx(p) /\ failed[p] = "none"
Accepted(p)  == pc[p] = "done" /\ status[p] = 202 /\ route[p] = "POST"
\* calculateChanges returned its RuleChanges
Calculated(p) ==
    /\ InTx(p) \/ AfterTx(p)
    /\ pc[p] # "calc"
    /\ failed[p] \notin {"GetRuleGroupAlertRules", "GetAlertRuleByUID"}

IDsOf(tbl)        == {r.ID : r \in tbl}
SubmittedUIDs(p)  == {req[p].rules[i].UID : i \in 1..Len(req[p].rules)} \ {""}
GroupOf(p, tbl)   ==
    {r \in tbl : r.OrgID = req[p].org /\ r.NamespaceUID = req[p].ns /\ r.RuleGroup = req[p].grp}
UpdateEntries(p)  == {i \in 1..Len(changes[p].Upsert) : changes[p].Upsert[i].Existing # NilRule}
CreateEntries(p)  == {i \in 1..Len(changes[p].Upsert) : changes[p].Upsert[i].Existing = NilRule}

\* the table holds the whole change set of p on top of pre[p]: untouched rows
\* as they were, every updated row as its last Upsert entry wrote it, one
\* fresh row per created entry, no row of a Delete entry, and nothing else
WholeChangeSetApplied(p) ==
    LET c       == changes[p]
        updIDs  == {c.Upsert[i].New.ID : i \in UpdateEntries(p)}
        delUIDs == {c.Delete[j].UID : j \in 1..Len(c.Delete)}
        kept    == {r \in pre[p] : r.ID \notin updIDs
                                   /\ ~(r.OrgID = req[p].org /\ r.UID \in delUIDs)}
        written == {c.Upsert[i].New : i \in {k \in UpdateEntries(p) :
                        \A m \in UpdateEntries(p) :
                            c.Upsert[m].New.ID = c.Upsert[k].New.ID => m <= k}}
        fresh   == {r \in rules : r.ID \notin IDsOf(pre[p])}
    IN /\ kept \subseteq rules
       /\ written \subseteq rules
       /\ rules = kept \cup written \cup fresh
       /\ Cardinality(fresh) = Cardinality(CreateEntries(p))
       /\ \A i \in CreateEntries(p) : \E r \in fresh :
             /\ [r EXCEPT !.ID = 0, !.UID = c.Upsert[i].New.UID] = c.Upsert[i].New
             /\ r.UID # ""
       /\ \A j \in 1..Len(c.Delete) :
             ~\E r \in rules : r.OrgID = req[p].org /\ r.UID = c.Delete[j].UID

\* C1: a rule-group submission is atomic: while its transaction runs no write
\* of it is visible, and afterwards the table is either the pre-request table
\* with the whole change set applied or, when any step of the transaction
\* failed, exactly the pre-request table.
C1_AllOrNothing ==
    \A p \in Procs :
        /\ InTx(p) => rules = pre[p]
        /\ AfterTx(p) =>
              IF failed[p] # "none" THEN rules = pre[p]
              ELSE WholeChangeSetApplied(p)

\* a committed submission that updated, created and deleted
C1_Witness ==
    \E p \in Procs :
        /\ Accepted(p)
        /\ UpdateEntries(p) # {}
        /\ CreateEntries(p) # {}
        /\ changes[p].Delete # <<>>

\* C2: when the quota check of a submission that creates rules reports the
\* limit reached, the submission ends with the quota-exceeded error (403) and
\* persists nothing: no new row, updates keep their old row, deletes remain.
C2_QuotaRejectsAll ==
    \A p \in Procs :
        failed[p] = "limitReached" =>
            /\ changes[p].newRules > 0
            /\ pc[p] \in {"rollback", "error", "done"}
            /\ err[p] = ErrQuotaReached
            /\ pc[p] = "done" => status[p] = ErrStatus(ErrQuotaReached)
            /\ rules = pre[p]
            /\ IDsOf(rules) = IDsOf(pre[p])
            /\ \A i \in UpdateEntries(p) : changes[p].Upsert[i].Existing \in rules
            /\ \A j \in 1..Len(changes[p].Delete) : changes[p].Delete[j] \in rules

\* a quota-rejected submission that would have created, updated and deleted
C2_Witness ==
    \E p \in Procs :
        /\ pc[p] = "done"
        /\ failed[p] = "limitReached"
        /\ status[p] = 403
        /\ UpdateEntries(p) # {}
        /\ CreateEntries(p) # {}
        /\ changes[p].Delete # <<>>

\* the Version of every row after a step, against the row of the same org and
\* UID before it: a row that appears starts at 1; a row the committing
\* submission names goes up by exactly 1; every other row keeps its Version
VersionStep ==
    rules' # rules =>
        \A n \in rules' :
            LET olds == {o \in rules : o.OrgID = n.OrgID /\ o.UID = n.UID}
            IN IF olds = {} THEN n.Version = 1
               ELSE \A o \in olds :
                      IF \E p \in Procs : /\ pc[p] = "commit"
                                          /\ n.OrgID = req[p].org
                                          /\ n.UID \in SubmittedUIDs(p)
                      THEN n.Version = o.Version + 1
                      ELSE n.Version = o.Version

\* C3: over any sequence of submissions the Version of a rule UID starts at 1
\* when the rule is created, each successful update sets it to its persisted
\* Version plus 1, it never decreases and never is the caller's value.
C3_VersionByOne == [][VersionStep]_vars

\* a rule created by a submission and updated by a later one, next to a rule
\* of the initial table updated twice
C3_Witness ==
    /\ \E r \in rules : r.ID \notin IDsOf(InitRules) /\ r.Version = 2
    /\ \E r \in rules : r.ID \in IDsOf(InitRules) /\ r.Version = 3

\* C4: the Delete set of calculateChanges is exactly the persisted rules of
\* the submitted namespace+group whose UID no submitted rule has, each once,
\* and every submitted rule whose UID a rule of the group has is in Upsert
\* as an update of that rule.
C4_SetCompleteness ==
    \A p \in Procs :
        Calculated(p) =>
            LET c == changes[p]
                G == GroupOf(p, pre[p])
            IN /\ Range(c.Delete) = {r \in G : r.UID \notin SubmittedUIDs(p)}
               /\ Len(c.Delete) = Cardinality(Range(c.Delete))
               /\ Len(c.Upsert) = Len(req[p].rules)
               /\ \A i \in 1..Len(req[p].rules) :
                     \A g \in G :
                        g.UID = req[p].rules[i].UID =>
                            /\ c.Upsert[i].Existing = g
                            /\ c.Upsert[i].New.ID = g.ID
                            /\ c.Upsert[i].New.UID = g.UID

\* a group of two rules and a submission that names one of them and a rule
\* of another group: the named one is updated, the other one is deleted
C4_Witness ==
    \E p \in Procs :
        /\ Calculated(p)
        /\ Cardinality(GroupOf(p, pre[p])) = 2
        /\ Cardinality(SubmittedUIDs(p)) = 2
        /\ Cardinality(SubmittedUIDs(p) \cap {r.UID : r \in GroupOf(p, pre[p])}) = 1
        /\ Len(changes[p].Delete) = 1
        /\ UpdateEntries(p) = {1, 2}

\* the rules of the org that a submission names by UID and that are
\* persisted outside the submitted namespace+group
MovedBy(p) ==
    {x \in pre[p] : /\ x.OrgID = req[p].org
                    /\ x.UID \in SubmittedUIDs(p)
                    /\ x \notin GroupOf(p, pre[p])}

\* C5: a rule persisted in another group and submitted by UID is an update,
\* not a delete plus create: its Upsert entry has Existing = the persisted
\* rule, the same storage ID, Version + 1 and the submitted placement, it is
\* not in Delete, and after the commit it exists once, in the submitted
\* group, under its old storage ID.
C5_MoveIsUpdate ==
    \A p \in Procs :
        Calculated(p) =>
            \A x \in MovedBy(p) :
                /\ \A i \in 1..Len(req[p].rules) :
                      req[p].rules[i].UID = x.UID =>
                          /\ changes[p].Upsert[i].Existing = x
                          /\ changes[p].Upsert[i].New.ID = x.ID
                          /\ changes[p].Upsert[i].New.Version = x.Version + 1
                          /\ changes[p].Upsert[i].New.NamespaceUID = req[p].ns
                          /\ changes[p].Upsert[i].New.RuleGroup = req[p].grp
                /\ \A j \in 1..Len(changes[p].Delete) : changes[p].Delete[j].UID # x.UID
                /\ Committed(p) =>
                      /\ Cardinality({r \in rules : r.OrgID = x.OrgID /\ r.UID = x.UID}) = 1
                      /\ \A r \in rules :
                            r.OrgID = x.OrgID /\ r.UID = x.UID =>
                                /\ r.ID = x.ID
                                /\ r.NamespaceUID = req[p].ns
                                /\ r.RuleGroup = req[p].grp
                                /\ r.Version = x.Version + 1

\* a committed submission that moved a rule from g1 to g2
C5_Witness ==
    \E p \in Procs :
        /\ Accepted(p)
        /\ req[p].grp = "g2"
        /\ \E x \in MovedBy(p) : x.RuleGroup = "g1" /\ x.NamespaceUID = req[p].ns

\* the scheduler calls of p that an Upsert entry (op "update") or a Delete
\* entry (op "delete") caused
CallsFor(p, op, i) ==
    {n \in 1..Len(calls[p]) : calls[p][n].op = op /\ calls[p][n].entry = i}

\* C6: when an accepted submission completes, the scheduler got exactly one
\* UpdateAlertRule(OrgID, UID) per Upsert entry with an existing rule and one
\* DeleteAlertRule(OrgID, UID) per Delete entry, the updates first, and its
\* registry holds no deleted key and the stored Version of every updated key
\* it has.
C6_SchedulerNotified ==
    \A p \in Procs :
        Accepted(p) =>
            LET c == changes[p]
            IN /\ Len(calls[p]) = Cardinality(UpdateEntries(p)) + Len(c.Delete)
               /\ \A i \in UpdateEntries(p) :
                     /\ Cardinality(CallsFor(p, "update", i)) = 1
                     /\ \A n \in CallsFor(p, "update", i) :
                           calls[p][n].key = Key(req[p].org, c.Upsert[i].Existing.UID)
               /\ \A j \in 1..Len(c.Delete) :
                     /\ Cardinality(CallsFor(p, "delete", j)) = 1
                     /\ \A n \in CallsFor(p, "delete", j) :
                           calls[p][n].key = Key(req[p].org, c.Delete[j].UID)
               /\ \A n, m \in 1..Len(calls[p]) :
                     calls[p][n].op = "update" /\ calls[p][m].op = "delete" => n < m
               /\ \A j \in 1..Len(c.Delete) :
                     Key(req[p].org, c.Delete[j].UID) \notin DOMAIN registry
               /\ \A i \in UpdateEntries(p) :
                     LET k == Key(req[p].org, c.Upsert[i].Existing.UID)
                     IN k \in DOMAIN registry => registry[k] = c.Upsert[i].New.Version

\* an accepted submission with an update and a delete, both of rules the
\* scheduler had registered, and the refreshed copy in the registry
C6_Witness ==
    \E p \in Procs :
        /\ Accepted(p)
        /\ UpdateEntries(p) # {}
        /\ changes[p].Delete # <<>>
        /\ \E i \in UpdateEntries(p) :
              /\ Key(req[p].org, changes[p].Upsert[i].Existing.UID) \in DOMAIN registry
              /\ changes[p].Upsert[i].New.Version = 3

\* C7: the scheduler is called only after the transaction of the submission
\* committed: a request that has made a call, or is in a notification loop,
\* holds no transaction and had no failing step, and a request whose
\* transaction failed ends without any call.
C7_NotifyAfterCommit ==
    \A p \in Procs :
        /\ (calls[p] # <<>> \/ pc[p] \in {"notifyUpsert", "notifyDelete"}) =>
              /\ failed[p] = "none"
              /\ err[p] = NoErr
              /\ txOwner # p
              /\ ~InTx(p)
        /\ (failed[p] # "none" \/ InTx(p)) => calls[p] = <<>>
        /\ (pc[p] = "done" /\ status[p] # 202) => calls[p] = <<>>

\* a submission that failed after calculateChanges had found updates and
\* deletes, answered without a scheduler call
C7_Witness ==
    \E p \in Procs :
        /\ pc[p] = "done"
        /\ failed[p] \in {"UpsertAlertRules", "DeleteAlertRuleByUID", "limitReached", "commit"}
        /\ UpdateEntries(p) # {}
        /\ changes[p].Delete # <<>>
        /\ calls[p] = <<>>

\* C8: a brand-new rule causes no scheduler call in the submission that
\* creates it: no call comes from an Upsert entry without an existing rule,
\* and no call of the submission has the key of a row it inserted.
C8_NoCallForNewRule ==
    \A p \in Procs :
        /\ \A n \in 1..Len(calls[p]) :
              calls[p][n].op = "update" => calls[p][n].entry \in UpdateEntries(p)
        /\ Committed(p) =>
              \A r \in rules :
                 r.ID \notin IDsOf(pre[p]) =>
                    \A n \in 1..Len(calls[p]) : calls[p][n].key # Key(r.OrgID, r.UID)

\* an accepted submission that created a rule and did call the scheduler
C8_Witness ==
    \E p \in Procs :
        /\ Accepted(p)
        /\ CreateEntries(p) # {}
        /\ \E r \in rules : r.ID \notin IDsOf(pre[p])
        /\ calls[p] # <<>>

\* request p submits again, rule for rule, what the last committed submission
\* submitted to the same org, namespace and group, every rule with its UID
Resubmission(p) ==
    /\ req[p] # NoReq
    /\ req[p] = lastWrite
    /\ req[p].rules # <<>>
    /\ \A i \in 1..Len(req[p].rules) : req[p].rules[i].UID # ""

\* C9: submitting the same rule group twice with unchanged rule specs and
\* unchanged UIDs: the commit of the second submission bumps no Version and
\* deletes or inserts no rule, it leaves the table as it is.
C9_ResubmitChangesNothing ==
    [][\A p \in Procs : (pc[p] = "commit" /\ Resubmission(p)) => rules' = rules]_vars

\* the submitted rules whose non-empty UID no rule of the org has
Unresolved(p) ==
    {i \in 1..Len(req[p].rules) :
        /\ req[p].rules[i].UID # ""
        /\ GetAlertRuleByUID(pre[p], req[p].org, req[p].rules[i].UID) = NilRule}

\* C10: a submitted rule whose non-empty UID is in neither the group nor the
\* org does not fail calculateChanges: the not-found answer of the lookup is
\* never the error of the request, and the rule is an Upsert entry without
\* existing rule, at Version 1, counted in newRules.
C10_UnresolvedUIDAccepted ==
    \A p \in Procs :
        /\ failed[p] = "GetAlertRuleByUID" => err[p] # ErrNotFound
        /\ Calculated(p) =>
              /\ \A i \in Unresolved(p) :
                    /\ changes[p].Upsert[i].Existing = NilRule
                    /\ changes[p].Upsert[i].New = [req[p].rules[i] EXCEPT !.Version = 1]
              /\ Unresolved(p) \subseteq CreateEntries(p)
              /\ changes[p].newRules >= Cardinality(Unresolved(p))

\* an accepted submission of a rule with a UID the org did not have: the rule
\* is stored under that UID at Version 1
C10_Witness ==
    \E p \in Procs :
        /\ Accepted(p)
        /\ \E i \in Unresolved(p) :
              \E r \in rules : /\ r.OrgID = req[p].org
                               /\ r.UID = req[p].rules[i].UID
                               /\ r.Version = 1
                               /\ r.ID \notin IDsOf(pre[p])

\* calculateChanges of request p failed
CalcFailed(p) == failed[p] \in {"GetRuleGroupAlertRules", "GetAlertRuleByUID"}

\* C11: when the existing-group query fails, or an org-wide lookup fails
\* with something else than rule-not-found, calculateChanges returns an error
\* and no RuleChanges: the request goes straight to the rollback and the
\* error response, it never reaches the upsert, the deletes or the quota
\* check, makes no scheduler call and leaves the table as it was.
C11_CalcFailureStopsAll ==
    \A p \in Procs :
        CalcFailed(p) =>
            /\ err[p] # NoErr
            /\ failed[p] = "GetAlertRuleByUID" => err[p] # ErrNotFound
            /\ changes[p] = NoChanges
            /\ pc[p] \in {"rollback", "error", "done"}
            /\ pc[p] = "rollback" => tx[p] = [rules |-> pre[p], nextID |-> nextID]
            /\ pc[p] = "done" => status[p] = ErrStatus(err[p])
            /\ calls[p] = <<>>
            /\ rules = pre[p]

\* a request answered 500 after an org-wide lookup failed, whose submission
\* named two rules and would have emptied a group that holds a rule
C11_Witness ==
    \E p \in Procs :
        /\ pc[p] = "done"
        /\ failed[p] = "GetAlertRuleByUID"
        /\ status[p] = 500
        /\ Len(req[p].rules) = 2
        /\ \E g \in GroupOf(p, rules) : g.UID \notin SubmittedUIDs(p)

\* C12: the Upsert sequence of calculateChanges keeps the submission order:
\* it has one entry per submitted rule, and entry i carries the i-th
\* submitted rule (with the storage ID and Version calculateChanges sets),
\* next to the existing rule of that UID when there is one, whether the rule
\* is new, updated in place or moved.
C12_UpsertKeepsOrder ==
    \A p \in Procs :
        Calculated(p) =>
            /\ Len(changes[p].Upsert) = Len(req[p].rules)
            /\ \A i \in 1..Len(req[p].rules) :
                  LET e == changes[p].Upsert[i]
                  IN /\ [e.New EXCEPT !.ID = 0, !.Version = 0] = req[p].rules[i]
                     /\ e.Existing # NilRule =>
                           /\ e.Existing.UID = req[p].rules[i].UID
                           /\ e.Existing.OrgID = req[p].org
                           /\ e.New.ID = e.Existing.ID

\* a submission of two rules: a new rule first, then a rule that is moved in
\* from another namespace or group
C12_Witness ==
    \E p \in Procs :
        /\ Calculated(p)
        /\ Len(req[p].rules) = 2
        /\ req[p].rules[1].UID # req[p].rules[2].UID
        /\ UpdateEntries(p) = {2}
        /\ CreateEntries(p) = {1}
        /\ MovedBy(p) # {}

\* the submitted rules of p that repeat the UID of an earlier submitted rule
RepeatedUIDs(p) ==
    {i \in 1..Len(req[p].rules) :
        /\ req[p].rules[i].UID # ""
        /\ \E j \in 1..(i - 1) : req[p].rules[j].UID = req[p].rules[i].UID}

Deleting(p, r) == route[p] = r /\ req[p] # NoReq

\* the delete calls of p so far are those for the first n UIDs of uids[p],
\* one each, in that order
NotifiedUpTo(p, n) ==
    /\ Len(calls[p]) = n
    /\ \A i \in 1..n : calls[p][i] = [op |-> "delete", key |-> Key(req[p].org, uids[p][i]),
                                       entry |-> i]

\* C14: deleting a namespace that holds N rules either removes all N rules
\* (and no other rule) and sends the scheduler one DeleteAlertRule for each
\* of the N UIDs before answering 202, or, when the delete of the store
\* fails, removes no rule, sends no notification and answers 500.
C14_NamespaceDeleteAllOrNone ==
    \A p \in Procs :
        Deleting(p, "DELETE_NS") =>
            LET N == NamespaceAlertRules(pre[p], req[p].org, req[p].ns)
            IN IF failed[p] # "none"
               THEN /\ rules = pre[p]
                    /\ calls[p] = <<>>
                    /\ uids[p] = <<>>
                    /\ pc[p] = "done"
                    /\ status[p] = 500
               ELSE /\ rules = pre[p] \ N
                    /\ Range(uids[p]) = {r.UID : r \in N}
                    /\ Len(uids[p]) = Cardinality(N)
                    /\ pc[p] \in {"notifyUIDs", "done"}
                    /\ pc[p] = "notifyUIDs" => NotifiedUpTo(p, idx[p] - 1)
                    /\ pc[p] = "done" =>
                          /\ status[p] = 202
                          /\ NotifiedUpTo(p, Cardinality(N))
                          /\ \A r \in N : Key(r.OrgID, r.UID) \notin DOMAIN registry

\* an accepted delete of a namespace that held three rules in two groups, one
\* of them created by a submission
C14_Witness ==
    \E p \in Procs :
        /\ Deleting(p, "DELETE_NS")
        /\ pc[p] = "done"
        /\ status[p] = 202
        /\ Len(calls[p]) = 3
        /\ Cardinality({r.RuleGroup : r \in NamespaceAlertRules(pre[p], req[p].org, req[p].ns)}) = 2
        /\ \E r \in pre[p] \ rules : r.ID \notin IDsOf(InitRules)

\* C15: deleting a rule group that holds no rule fails: the not-found answer
\* of the store is answered 404 (any other failure 500), the table stays as
\* it was and the scheduler gets no DeleteAlertRule; deleting an existing
\* group removes its rules and sends one DeleteAlertRule for each UID the
\* store returned, and for no other key, before answering 202.
C15_GroupDelete ==
    \A p \in Procs :
        Deleting(p, "DELETE_GROUP") =>
            LET G == GetRuleGroupAlertRules(pre[p], req[p].org, req[p].ns, req[p].grp)
            IN /\ G = {} => failed[p] = "DeleteRuleGroupAlertRules"
               /\ err[p] = ErrGroupNotFound => G = {}
               /\ IF failed[p] # "none"
                  THEN /\ pc[p] = "done"
                       /\ status[p] = IF err[p] = ErrGroupNotFound THEN 404 ELSE 500
                       /\ rules = pre[p]
                       /\ calls[p] = <<>>
                       /\ uids[p] = <<>>
                  ELSE /\ rules = pre[p] \ G
                       /\ Range(uids[p]) = {r.UID : r \in G}
                       /\ Len(uids[p]) = Cardinality(G)
                       /\ pc[p] \in {"notifyUIDs", "done"}
                       /\ pc[p] = "notifyUIDs" => NotifiedUpTo(p, idx[p] - 1)
                       /\ pc[p] = "done" =>
                             /\ status[p] = 202
                             /\ NotifiedUpTo(p, Len(uids[p]))

\* a delete of a group without rules, in a namespace whose other group holds
\* rules, answered 404
C15_Witness ==
    \E p \in Procs :
        /\ Deleting(p, "DELETE_GROUP")
        /\ pc[p] = "done"
        /\ status[p] = 404
        /\ err[p] = ErrGroupNotFound
        /\ GetRuleGroupAlertRules(rules, req[p].org, req[p].ns, req[p].grp) = {}
        /\ Cardinality(NamespaceAlertRules(rules, req[p].org, req[p].ns)) = 2

\* request p is a submission that ran its transaction and was answered
Responded(p) == pc[p] = "done" /\ route[p] = "POST" /\ req[p] # NoReq

\* C16: a submission whose transaction failed is answered by the kind of
\* the error: rule-not-found 404, a validation failure of the store 400,
\* quota exceeded 403 (and only the reached limit gives that error), any
\* other error 500; a submission is answered 202 exactly when its
\* transaction committed.
C16_StatusPerFailure ==
    \A p \in Procs :
        Responded(p) =>
            /\ failed[p] = "none" <=> err[p] = NoErr
            /\ err[p] = NoErr          <=> status[p] = 202
            /\ err[p] = ErrNotFound    <=> status[p] = 404
            /\ err[p] = ErrValidation  <=> status[p] = 400
            /\ err[p] = ErrQuotaReached <=> status[p] = 403
            /\ err[p] = ErrInternal    <=> status[p] = 500
            /\ failed[p] = "limitReached" <=> err[p] = ErrQuotaReached
            /\ failed[p] \in {"CheckQuotaReached", "commit"} => status[p] = 500

\* a submission with an update and a delete whose bulk write failed a
\* constraint of the store, answered 400
C16_Witness ==
    \E p \in Procs :
        /\ Responded(p)
        /\ failed[p] = "UpsertAlertRules"
        /\ err[p] = ErrValidation
        /\ status[p] = 400
        /\ UpdateEntries(p) # {}
        /\ changes[p].Delete # <<>>

\* the namespace of submission p did not resolve, or its rule group failed
\* validation
RejectedEarly(p) ==
    route[p] = "POST" /\ failed[p] \in {"GetNamespaceByTitle", "validateRuleGroup"}

\* after a step request p is a rejected submission: it is answered with a
\* client error, holds no transaction, has no RuleChanges and made no
\* scheduler call; the step that rejected it wrote nothing
RejectedHasNoEffect(p) ==
    RejectedEarly(p)' =>
        /\ pc'[p] = "done"
        /\ failed'[p] = "validateRuleGroup" => status'[p] = 400
        /\ status'[p] \in {400, 403, 404}
        /\ txOwner' # p
        /\ tx'[p] = NoTx
        /\ req'[p] = NoReq
        /\ changes'[p] = NoChanges
        /\ calls'[p] = <<>>
        /\ pc[p] = "idle" =>
              /\ rules' = rules
              /\ nextID' = nextID
              /\ registry' = registry
              /\ txOwner' = txOwner
              /\ tx' = tx
              /\ lastWrite' = lastWrite

\* C17: a submission whose namespace does not resolve, or whose rule group
\* fails validation, is rejected before any transaction opens: the request
\* is answered at once with a client error, and no store write, no quota
\* check and no scheduler call happens for it.
C17_RejectedBeforeTransaction ==
    [][\A p \in Procs : RejectedHasNoEffect(p)]_vars

\* a submission rejected by the validation, after earlier submissions had
\* changed the table
C17_Witness ==
    \E p \in Procs :
        /\ RejectedEarly(p)
        /\ failed[p] = "validateRuleGroup"
        /\ pc[p] = "done"
        /\ status[p] = 400
        /\ rules # InitRules

\* the RuleChanges of p are what calculateChanges gives on table tbl
ChangesFrom(p, tbl) ==
    LET c == calculateChanges(tbl, req[p].org, req[p].ns, req[p].grp, req[p].rules)
    IN /\ changes[p].Upsert = c.Upsert
       /\ changes[p].newRules = c.newRules
       /\ Range(changes[p].Delete) = c.toDelete
       /\ Len(changes[p].Delete) = Cardinality(c.toDelete)

\* the commit of p adds exactly 1 to the Version each rule it updates has in
\* the table at that moment
CommitBumpsCommitted(p) ==
    (pc[p] = "commit" /\ pc'[p] = "notifyUpsert") =>
        \A i \in UpdateEntries(p) :
            LET id == changes[p].Upsert[i].Existing.ID
            IN /\ \E o \in rules : o.ID = id
               /\ \A o \in rules, n \in rules' :
                     (o.ID = id /\ n.ID = id) => n.Version = o.Version + 1

\* C18: submissions served at the same time behave as if one ran after the
\* other: while the transaction of a submission is open no other request
\* changes the table, the RuleChanges it works with are those of the table
\* as committed at that moment (never of an older snapshot), and its commit
\* raises the committed Version of every rule it updates by exactly 1, so a
\* rule updated by two submissions ends 2 above where it started.
C18_SubmissionsSerialised ==
    [][\A p \in Procs :
          /\ InTx(p) => rules = pre[p]
          /\ (InTx(p) /\ Calculated(p)) => ChangesFrom(p, rules)
          /\ CommitBumpsCommitted(p)]_vars

\* two accepted submissions to the same group that both updated the same
\* rule: the second arrived before the first committed, computed its
\* changes after that commit, and the rule ended 2 above its Version before
\* the two
C18_Witness ==
    \E p, p2 \in Procs :
        /\ p # p2
        /\ Accepted(p) /\ Accepted(p2)
        /\ req[p].ns = req[p2].ns /\ req[p].grp = req[p2].grp
        /\ seen[p2] = pre[p]
        /\ seen[p2] # pre[p2]
        /\ \E i \in UpdateEntries(p), j \in UpdateEntries(p2) :
              /\ changes[p].Upsert[i].Existing \in GroupOf(p, pre[p])
              /\ changes[p2].Upsert[j].Existing = changes[p].Upsert[i].New
              /\ changes[p2].Upsert[j].New.Version = changes[p].Upsert[i].Existing.Version + 2
              /\ changes[p2].Upsert[j].New \in rules

\* request p is a read of route r that was answered with a body
ReadDone(p, r) == route[p] = r /\ pc[p] = "done" /\ failed[p] = "none"

\* the places of a response body of RouteGetRulesConfig: namespace title,
\* index of the group config, index of the rule in it
Places(body) ==
    UNION {UNION {{<<t, i, j>> : j \in 1..Len(body[t][i].Rules)} : i \in 1..Len(body[t])} :
           t \in DOMAIN body}

\* C19: RouteGetRulesConfig answers 200 with exactly the rules of q.Result
\* whose namespace is in the caller's namespace map: a rule of a namespace
\* that is not in the map is left out and does not fail the request, and
\* every other rule of q.Result is in the body exactly once, under the title
\* of its namespace, in the one group config that has its rule-group name.
C19_GetAllOnlyVisible ==
    \A p \in Procs :
        ReadDone(p, "GET_ALL") =>
            LET nsMap == namespaceMap[p]
                found == q[p].Result
                body  == result[p]
            IN /\ status[p] = 200
               /\ \A pl \in Places(body) :
                     LET r == body[pl[1]][pl[2]].Rules[pl[3]].GrafanaManagedAlert
                     IN /\ r \in Range(found)
                        /\ r.NamespaceUID \in DOMAIN nsMap
                        /\ pl[1] = nsMap[r.NamespaceUID].Title
                        /\ body[pl[1]][pl[2]].Name = r.RuleGroup
                        /\ body[pl[1]][pl[2]].Rules[pl[3]].NamespaceID = nsMap[r.NamespaceUID].Id
               /\ \A i \in 1..Len(found) :
                     found[i].NamespaceUID \in DOMAIN nsMap =>
                         Cardinality({pl \in Places(body) :
                             body[pl[1]][pl[2]].Rules[pl[3]].GrafanaManagedAlert = found[i]}) = 1
               /\ \A t \in DOMAIN body : \A i, j \in 1..Len(body[t]) :
                     body[t][i].Name = body[t][j].Name => i = j
               /\ \A t \in DOMAIN body : body[t] # <<>>

\* a read whose q.Result held a rule of a namespace the caller does not see
\* next to two rules of one group and a rule of another group of a
\* namespace the caller sees
C19_Witness ==
    \E p \in Procs :
        /\ ReadDone(p, "GET_ALL")
        /\ status[p] = 200
        /\ \E i \in 1..Len(q[p].Result) : q[p].Result[i].NamespaceUID \notin DOMAIN namespaceMap[p]
        /\ \E t \in DOMAIN result[p] :
              /\ Len(result[p][t]) = 2
              /\ \E i \in 1..2 : Len(result[p][t][i].Rules) = 2

ReadRoutes   == {"GET_ALL", "GET_NS", "GET_GROUP"}
DeleteRoutes == {"DELETE_NS", "DELETE_GROUP"}

\* the step is request p entering route r: the handler runs up to its answer
\* or, for a submission or a delete, up to its next store or scheduler call
Enters(p, routes) == pc[p] = "idle" /\ route'[p] \in routes

\* a step of one of the three reads writes neither the table, the ID
\* counter, the registry nor a transaction
ReadsWriteNothing ==
    \A p \in Procs :
        Enters(p, ReadRoutes) =>
            /\ rules' = rules
            /\ nextID' = nextID
            /\ registry' = registry
            /\ txOwner' = txOwner
            /\ tx' = tx
            /\ calls' = calls

\* the table changes only in the commit of a submission or in the store
\* call of one of the two deletes
TableWrittenByWriters ==
    rules' # rules =>
        \E p \in Procs :
            \/ route[p] = "POST" /\ pc[p] = "commit"
            \/ Enters(p, DeleteRoutes)

\* the registry changes only in a notification loop of a request whose
\* write was committed, or in the scheduler's own periodic pass
RegistryWrittenByNotifier ==
    registry' # registry =>
        \/ \E p \in Procs :
              /\ pc[p] \in {"notifyUpsert", "notifyDelete", "notifyUIDs"}
              /\ failed[p] = "none"
              /\ calls'[p] # calls[p]
        \/ registry' = SyncedRegistry(rules) /\ UNCHANGED <<pc, calls>>

\* C20: the three reads (rule group, namespace rules, all rules of the org)
\* change neither the rule table nor the scheduler registry; the table is
\* written only by the commit of a submission and by the two deletes, the
\* registry only by the notification loops that follow a committed write
\* (and by the scheduler itself).
C20_ReadsAreReadOnly ==
    [][ReadsWriteNothing /\ TableWrittenByWriters /\ RegistryWrittenByNotifier]_vars

\* an answered read of a group with rules, at a moment when the registry
\* lacks a rule that the table holds: the read reconciled nothing
C20_Witness ==
    \E p \in Procs :
        /\ ReadDone(p, "GET_GROUP")
        /\ status[p] = 202
        /\ result[p].Rules # <<>>
        /\ \E r \in rules : Key(r.OrgID, r.UID) \notin DOMAIN registry

\* the closure of p stands at the quota check with a change set that creates
\* nothing: every Upsert entry has an existing rule
AtQuotaCreatingNothing(p) == pc[p] = "quota" /\ CreateEntries(p) = {}

\* C21: the quota service is consulted only when the change set creates
\* rules: a submission whose Upsert entries all have an existing rule
\* (newRules = 0), with or without deletes, passes the quota check without a
\* call, whatever the service would have answered (error or limit reached),
\* and goes on to the commit; no such submission ever ends on the quota.
C21_QuotaOnlyForNewRules ==
    [][\A p \in Procs :
          /\ (AtQuotaCreatingNothing(p) /\ pc'[p] # pc[p]) =>
                /\ changes[p].newRules = 0
                /\ pc'[p] = "commit"
                /\ err'[p] = NoErr
                /\ failed'[p] = "none"
          /\ (Calculated(p) /\ CreateEntries(p) = {}) =>
                /\ failed[p] \notin {"CheckQuotaReached", "limitReached"}
                /\ err[p] # ErrQuotaReached]_vars

\* an accepted submission that updated a rule and deleted another without
\* creating one
C21_Witness ==
    \E p \in Procs :
        /\ Accepted(p)
        /\ CreateEntries(p) = {}
        /\ UpdateEntries(p) # {}
        /\ changes[p].Delete # <<>>
        /\ changes[p].newRules = 0

\* the submitted rules without UID
EmptyUID(p) == {i \in 1..Len(req[p].rules) : req[p].rules[i].UID = ""}

\* the scenario: the group holds exactly r1 at Version 3 and r2 at Version 1,
\* the submission is r1 followed by a rule without UID
Scenario(p, r1, r2) ==
    /\ GroupOf(p, pre[p]) = {r1, r2}
    /\ r1.UID # r2.UID
    /\ r1.Version = 3
    /\ r2.Version = 1
    /\ Len(req[p].rules) = 2
    /\ req[p].rules[1].UID = r1.UID
    /\ req[p].rules[2].UID = ""

\* C22: every result of calculateChanges has exactly one Upsert entry per
\* submitted rule, and newRules is the number of Upsert entries without
\* existing rule, which are the rules with empty UID and the rules whose UID
\* resolved to nothing; for the group [r1 v3, r2 v1] and the submission
\* [r1, rule without UID] the result is Upsert = [r1 at v4, new rule at v1],
\* Delete = [r2], newRules = 1.
C22_OneEntryPerRule ==
    \A p \in Procs :
        Calculated(p) =>
            /\ Len(changes[p].Upsert) = Len(req[p].rules)
            /\ changes[p].newRules = Cardinality(CreateEntries(p))
            /\ CreateEntries(p) = EmptyUID(p) \cup Unresolved(p)
            /\ \A r1, r2 \in pre[p] :
                  Scenario(p, r1, r2) =>
                      /\ changes[p].Upsert =
                            <<[Existing |-> r1,
                               New |-> [req[p].rules[1] EXCEPT !.ID = r1.ID, !.Version = 4]],
                              [Existing |-> NilRule,
                               New |-> [req[p].rules[2] EXCEPT !.Version = 1]]>>
                      /\ changes[p].Delete = <<r2>>
                      /\ changes[p].newRules = 1

\* calculateChanges returned for the scenario
C22_Witness ==
    \E p \in Procs :
        /\ Calculated(p)
        /\ \E r1, r2 \in pre[p] : Scenario(p, r1, r2)
        /\ changes[p].newRules = 1

\* C23: in every result of calculateChanges no rule is both updated and
\* deleted: the UID of a Delete entry is the UID of no Upsert entry's existing
\* rule and of no submitted rule.
C23_NoUpdateAndDelete ==
    \A p \in Procs :
        Calculated(p) =>
            \A j \in 1..Len(changes[p].Delete) :
                /\ \A i \in UpdateEntries(p) :
                      changes[p].Upsert[i].Existing.UID # changes[p].Delete[j].UID
                /\ \A i \in 1..Len(req[p].rules) :
                      req[p].rules[i].UID # changes[p].Delete[j].UID

\* a result that updates a rule of the group and deletes another one
C23_Witness ==
    \E p \in Procs :
        /\ Calculated(p)
        /\ changes[p].Delete # <<>>
        /\ \E i \in UpdateEntries(p) : changes[p].Upsert[i].Existing \in GroupOf(p, pre[p])

\* a rule outside the reach of submission p: a rule of another org, or a rule
\* that is not in the target namespace+group and whose UID is not submitted
Outside(p, r) ==
    \/ r.OrgID # req[p].org
    \/ /\ r \notin GroupOf(p, pre[p])
       /\ r.UID \notin SubmittedUIDs(p)

\* the change set of p leaves rule r alone
NotInChanges(p, r) ==
    /\ \A j \in 1..Len(changes[p].Delete) : changes[p].Delete[j] # r
    /\ \A i \in 1..Len(changes[p].Upsert) :
          /\ changes[p].Upsert[i].Existing # r
          /\ changes[p].Upsert[i].New.ID # r.ID

\* C24: a submission to a namespace+group leaves unchanged every persisted
\* rule that is neither in that namespace+group nor referenced by UID in the
\* submission: rules of other groups, other namespaces and other orgs are in
\* no Delete or Upsert entry, and they are in the table as they were, inside
\* the transaction and after it.
C24_OutsideUntouched ==
    \A p \in Procs :
        (route[p] = "POST" /\ (InTx(p) \/ AfterTx(p))) =>
            \A r \in pre[p] :
                Outside(p, r) =>
                    /\ r \in rules
                    /\ InTx(p) => r \in tx[p].rules
                    /\ Calculated(p) => NotInChanges(p, r)

\* an accepted submission that deleted a rule of its group while the org held
\* a rule in another group of the namespace and a rule in another namespace,
\* and another org held a rule with a submitted UID
C24_Witness ==
    \E p \in Procs :
        /\ Accepted(p)
        /\ changes[p].Delete # <<>>
        /\ changes[p].Upsert # <<>>
        /\ \E r \in pre[p] : /\ Outside(p, r)
                             /\ r.OrgID = req[p].org
                             /\ r.NamespaceUID = req[p].ns
                             /\ r.RuleGroup # req[p].grp
        /\ \E r \in pre[p] : /\ Outside(p, r)
                             /\ r.OrgID = req[p].org
                             /\ r.NamespaceUID # req[p].ns
        /\ \E r \in pre[p] : r.OrgID # req[p].org /\ r.UID \in SubmittedUIDs(p)

\* the submitted rules of p have pairwise distinct non-empty UIDs, or empty
\* UIDs
DistinctUIDs(p) ==
    \A i, j \in 1..Len(req[p].rules) :
        (i # j /\ req[p].rules[i].UID # "") => req[p].rules[i].UID # req[p].rules[j].UID

\* persisted rule r is submitted rule s: its placement and content, and its
\* UID when s came with one
PersistedAs(r, s) ==
    /\ r.OrgID = s.OrgID
    /\ r.NamespaceUID = s.NamespaceUID
    /\ r.RuleGroup = s.RuleGroup
    /\ r.Title = s.Title
    /\ r.UID # ""
    /\ s.UID # "" => r.UID = s.UID

\* C25: after a successful submission whose rules have pairwise distinct
\* non-empty UIDs or empty UIDs, the rules persisted in the target
\* namespace+group are exactly the submitted rules: one persisted rule per
\* submitted rule and no other rule in the group.
C25_GroupReplaced ==
    \A p \in Procs :
        (Committed(p) /\ DistinctUIDs(p)) =>
            LET G == GroupOf(p, rules)
            IN /\ Cardinality(G) = Len(req[p].rules)
               /\ \A i \in 1..Len(req[p].rules) : \E r \in G : PersistedAs(r, req[p].rules[i])
               /\ \A r \in G : \E i \in 1..Len(req[p].rules) : PersistedAs(r, req[p].rules[i])

\* an accepted submission of two rules that moved a rule of another namespace
\* into the group, created a rule and deleted the rule the group held
C25_Witness ==
    \E p \in Procs :
        /\ Accepted(p)
        /\ DistinctUIDs(p)
        /\ Len(req[p].rules) = 2
        /\ CreateEntries(p) # {}
        /\ \E i \in UpdateEntries(p) :
              changes[p].Upsert[i].Existing.NamespaceUID # req[p].ns
        /\ changes[p].Delete # <<>>
        /\ Cardinality(GroupOf(p, rules)) = 2

\* C26: for any submission, one that lists the same non-empty UID more than
\* once included, no two Upsert entries of a result of calculateChanges refer
\* to the same existing rule: each persisted rule is the Existing of at most
\* one Upsert entry, so that one submission writes a storage ID at most once.
C26_OneEntryPerExisting ==
    \A p \in Procs :
        Calculated(p) =>
            \A i, j \in UpdateEntries(p) :
                i # j => /\ changes[p].Upsert[i].Existing # changes[p].Upsert[j].Existing
                         /\ changes[p].Upsert[i].New.ID # changes[p].Upsert[j].New.ID

\* request p committed a write of the table: the transaction of a submission,
\* or the delete of a delete route
Wrote(p) ==
    \/ route[p] = "POST" /\ Committed(p)
    \/ /\ route[p] \in DeleteRoutes
       /\ pc[p] \in {"notifyUIDs", "done"}
       /\ failed[p] = "none"
       /\ req[p] # NoReq

\* the last write of the table is the one of request p
LastWriter(p) ==
    /\ Wrote(p)
    /\ lastWrite = (IF route[p] = "POST" THEN req[p] ELSE NoReq)

\* the keys whose rule the committed write of p changed: updated, created
\* under a submitted UID, or deleted
Touched(p) ==
    IF route[p] = "POST"
    THEN {Key(req[p].org, changes[p].Delete[j].UID) : j \in 1..Len(changes[p].Delete)}
         \cup {Key(req[p].org, changes[p].Upsert[i].New.UID) :
                  i \in {k \in 1..Len(changes[p].Upsert) : changes[p].Upsert[k].New.UID # ""}}
    ELSE {Key(req[p].org, uids[p][j]) : j \in 1..Len(uids[p])}

\* the keys request p has told the scheduler about so far
NotifiedKeys(p) == {calls[p][n].key : n \in 1..Len(calls[p])}

\* a step in which p, whose write was committed before the write of p2, calls
\* the scheduler for a key: p2 has not yet called it for that key
CallsInCommitOrder(p, p2) ==
    (/\ Wrote(p) /\ Wrote(p2)
     /\ LastWriter(p2) /\ ~LastWriter(p)
     /\ calls'[p] # calls[p]) =>
        calls'[p][Len(calls'[p])].key \notin NotifiedKeys(p2)

\* both requests finished: on a key both writes changed, the registry holds
\* no key that storage lacks, and no delete call has dropped a key that
\* storage holds
AgreeWhenFinished(p, p2) ==
    (/\ Wrote(p) /\ Wrote(p2)
     /\ pc[p] = "done" /\ pc[p2] = "done") =>
        \A k \in Touched(p) \cap Touched(p2) :
            /\ k \in DOMAIN registry => k \in DOMAIN SyncedRegistry(rules)
            /\ ~(/\ k \in DOMAIN SyncedRegistry(rules)
                 /\ k \notin DOMAIN registry
                 /\ \E n \in 1..Len(calls[p]) :
                       calls[p][n].op = "delete" /\ calls[p][n].key = k)

\* C27: when two concurrent requests commit changes to the same rule key, the
\* scheduler receives their notifications for that key in the order the
\* transactions committed, so that after both requests finished the registry
\* holds no key that storage deleted last and has dropped no key that storage
\* holds because of a stale notification.
C27_NotifiedInCommitOrder ==
    /\ [][\A p, p2 \in Procs : p # p2 => CallsInCommitOrder(p, p2)]_vars
    /\ [](\A p, p2 \in Procs : p # p2 => AgreeWhenFinished(p, p2))

\* C28: the NamespaceUIDs list RouteGetRulesConfig passes to the org-wide
\* rule query holds exactly the UIDs of the namespaces visible to the caller,
\* each once, and no other entry, in particular no empty UID.
C28_QueryNamesVisibleNamespaces ==
    \A p \in Procs :
        (route[p] = "GET_ALL" /\ q[p] # NoQuery) =>
            /\ Range(q[p].NamespaceUIDs) = DOMAIN namespaceMap[p]
            /\ Len(q[p].NamespaceUIDs) = Cardinality(DOMAIN namespaceMap[p])
            /\ \A i \in 1..Len(q[p].NamespaceUIDs) : q[p].NamespaceUIDs[i] # ""

====
